---- MODULE Spec2Model ----
(***************************************************************************)
(* A model of the webhook handler of tribikramsahoo/webhook,               *)
(* src/lambda/webhook.py: post, the full pipeline (normalize, verify,      *)
(* sync, build, publish), with create_repo, pull_repo, run_command,        *)
(* build_hugo and upload_to_s3; and of post of src/webhook.py, the         *)
(* handler that validates a request and does nothing else, as a function   *)
(* of the event and the environment.                                       *)
(*                                                                         *)
(* One invocation runs at a time in an execution environment.  The state   *)
(* that outlives an invocation is the filesystem under /tmp (the cached    *)
(* clone of every repository key and the generator's output directory),    *)
(* the hosting bucket and the remote repositories.                         *)
(*                                                                         *)
(* Strings that the code splits or encodes are sequences of characters;    *)
(* the character NonAscii stands for any character outside ASCII.  A       *)
(* request body is a text: what json.loads makes of it and whether         *)
(* .encode('ascii') accepts it.  HMAC-SHA1 is a collision-free function of *)
(* the key bytes and the message bytes (keys are shorter than a block and  *)
(* do not end in NUL bytes, which HMAC pads with).                         *)
(*                                                                         *)
(* The calls into pygit2, shutil and the external commands are logged in   *)
(* ops with how they ended; MaxFaults bounds how many of them fail in one  *)
(* invocation.                                                             *)
(***************************************************************************)
EXTENDS Integers, Sequences, FiniteSets, TLC

VARIABLES
    environ,     \* os.environ: output_bucket, github_secrets
    pc,          \* position of the invocation in post
    event,       \* the event of the current (or last) invocation
    full_name,   \* local of post
    remote_url,  \* local of post
    secure,      \* local of post: "unset" before the signature check
    ops,         \* what the current (or last) invocation has executed, in order
    result,      \* how the last invocation ended: a response or a raised error
    cache,       \* /tmp/<full_name>/branch/main of every full_name
    remote,      \* the tip of branch main of the repository behind every clone url
    build_dir,   \* /tmp/hugo/public: the commits whose generated files it holds
    bucket,      \* the hosting bucket: the commits whose generated files it holds
    history,     \* of every key in this environment: "none", "synced" (a sync has
                 \* been started), "cloned" (a clone has succeeded)
    last_sync    \* of every key in this environment: the last pull_repo that
                 \* returned (its clone url, the remote's tip then, the commit
                 \* it left the path at and, while its invocation lasts,
                 \* whether it repeated the one before)

vars == <<environ, pc, event, full_name, remote_url, secure, ops, result,
          cache, remote, build_dir, bucket, history, last_sync>>

-----------------------------------------------------------------------------
(* Bounds *)

\* longest github_secrets value
MaxCfgLen == 3
\* number of commits pushed to branch main of a remote
MaxTip == 1
\* number of external operations that fail in one invocation
MaxFaults == 1

-----------------------------------------------------------------------------
(* Values *)

Missing == "<missing>"
NonAscii == "U+00E9"
Comma == ","

\* module globals of src/lambda/webhook.py
cleanup == FALSE
branch_name == "main"

FullNames == {"o/r1", "o/r2"}
Urls == {"u1", "u2"}

Chars == {"a", Comma, NonAscii}

RECURSIVE StringsUpTo(_)
StringsUpTo(n) ==
    IF n = 0 THEN {<<>>}
    ELSE LET shorter == StringsUpTo(n - 1)
         IN  shorter \cup {Append(s, c) : s \in {t \in shorter : Len(t) = n - 1}, c \in Chars}

\* str.split(','): the pieces between the commas, empty pieces included
RECURSIVE split(_)
split(s) ==
    IF \A i \in 1..Len(s) : s[i] # Comma THEN <<s>>
    ELSE LET i == CHOOSE j \in 1..Len(s) :
                      s[j] = Comma /\ \A h \in 1..(j - 1) : s[h] # Comma
         IN  <<SubSeq(s, 1, i - 1)>> \o split(SubSeq(s, i + 1, Len(s)))

Range(f) == {f[i] : i \in DOMAIN f}

\* str.encode('ascii') raises UnicodeEncodeError on a character outside ASCII
AsciiEncodable(s) == \A i \in 1..Len(s) : s[i] # NonAscii

\* hmac.new(key, msg, hashlib.sha1).hexdigest(), on the bytes of key and msg
hexdigest(key, msg) == [key |-> key, msg |-> msg]

\* '='.join(['sha1', digest])
computed_signature(key, msg) == [scheme |-> "sha1", digest |-> hexdigest(key, msg)]


-----------------------------------------------------------------------------
(* Requests *)

\* A text: a request body as received.  json is what json.loads makes of it:
\* "object" (a JSON object whose repository is absent or a mapping, described
\* by repository, full_name, clone_url), "mistyped" (a JSON value on which
\* ['repository'][..] raises TypeError: an array, a number, null, or an object
\* whose repository is no mapping) or "invalid" (json.loads raises); ascii says
\* whether .encode('ascii') accepts it.
Text(json, repository, fn, url, ascii) ==
    [json |-> json, repository |-> repository, full_name |-> fn,
     clone_url |-> url, ascii |-> ascii]

NotJson == Text("invalid", FALSE, Missing, Missing, TRUE)

Texts(names, urls) ==
    {NotJson}
    \cup {Text("mistyped", FALSE, Missing, Missing, a) : a \in BOOLEAN}
    \cup {Text("object", FALSE, Missing, Missing, a) : a \in BOOLEAN}
    \cup {Text("object", TRUE, fn, url, a) :
            fn \in names \cup {Missing}, url \in urls \cup {Missing}, a \in BOOLEAN}

\* the same payload with one byte changed
OtherText(t) == [t EXCEPT !.ascii = ~t.ascii]

\* sign(S, B) = "sha1=" + hex(HMAC-SHA1(S, B)), as the sender computes it on the
\* bytes of the secret and of the raw body
sign(S, B) == [scheme |-> "sha1", digest |-> hexdigest(S, B)]

NoSignature == [scheme |-> "none", digest |-> hexdigest(<<>>, NotJson)]
Garbage == [scheme |-> "md5", digest |-> hexdigest(<<>>, NotJson)]

\* An event.  shape: "proxy" (a mapping with a string body, as the gateway sends
\* it), "dict" (a mapping that is the payload itself) or "str" (a string holding
\* the payload).  text is event['body'] of a proxy event, the string of a str
\* event and the payload of a dict event.  body_word: "body" in event.
Event(shape, body_word, text, has_headers, gh, has_sig, sig) ==
    [shape |-> shape, body_word |-> body_word, text |-> text,
     has_headers |-> has_headers, gh_event |-> gh, has_sig |-> has_sig, sig |-> sig]

NoEvent == Event("none", FALSE, NotJson, FALSE, "absent", FALSE, NoSignature)

GhEvents == {"absent", "push", "ping"}

\* the secrets a sender may sign with: those configured and a few others
SenderKeys(env) ==
    {<<>>, <<"a">>, <<NonAscii>>}
    \cup (IF env.has_secrets THEN Range(split(env.github_secrets)) ELSE {})

Signatures(env, t) ==
    {Garbage}
    \cup {sign(k, t) : k \in SenderKeys(env)}
    \cup {sign(k, OtherText(t)) : k \in SenderKeys(env) \ {<<>>, <<NonAscii>>}}

\* the header mappings of an event whose signed text is t
Headers(env, t) ==
    {[gh_event |-> g, has_sig |-> FALSE, sig |-> NoSignature] : g \in GhEvents}
    \cup {[gh_event |-> g, has_sig |-> TRUE, sig |-> s] :
            g \in GhEvents, s \in Signatures(env, t)}

Events(env, names, urls) ==
    LET texts == Texts(names, urls)
        objects == {t \in texts : t.json # "invalid" /\ t.ascii}
    IN  \* gateway-proxied: body is a string, headers usually present
        UNION {{Event("proxy", TRUE, t, TRUE, h.gh_event, h.has_sig, h.sig) :
                    h \in Headers(env, t)} : t \in texts}
        \cup {Event("proxy", TRUE, t, FALSE, "absent", FALSE, NoSignature) : t \in texts}
        \* direct, structured: the event is the payload, with or without headers
        \cup {Event("dict", FALSE, t, FALSE, "absent", FALSE, NoSignature) : t \in objects}
        \cup UNION {{Event("dict", FALSE, t, TRUE, h.gh_event, h.has_sig, h.sig) :
                         h \in Headers(env, t)} : t \in objects}
        \* direct, string-encoded
        \cup {Event("str", w, t, FALSE, "absent", FALSE, NoSignature) :
                t \in texts, w \in BOOLEAN}


-----------------------------------------------------------------------------
(* How an invocation ends *)

NoResult ==
    [kind |-> "none", exc |-> "", statusCode |-> 0, message |-> "", repo_name |-> <<>>]

Raise(exc) ==
    [kind |-> "raise", exc |-> exc, statusCode |-> 0, message |-> "", repo_name |-> <<>>]

\* (mutant) the message is formatted with the branch name alone
Response_of_branch(message, repo_name) ==
    [kind |-> "response", exc |-> "", statusCode |-> 200, message |-> message,
     repo_name |-> IF repo_name = <<>> THEN <<>> ELSE <<branch_name>>]

\* {"statusCode": 200, "body": json.dumps(message % repo_name)}
Response(message, repo_name) ==
    [kind |-> "response", exc |-> "", statusCode |-> 200, message |-> message,
     repo_name |-> repo_name]

\* the prologue went through: post goes on to the repository
Proceed == [kind |-> "proceed", exc |-> "", statusCode |-> 0, message |-> "", repo_name |-> <<>>]

NoBucket == "Output Bucket not defined. Set the environment variable for the funcion"
NoFullName == "Failed to find full_name in json post body"
NoCloneUrl == "Failed to find clone_url name in json post body"
NoSecrets == "Github secrets not defined. Set the environment variable for the funcion"
NotAuthentic == "Failed to validate authenticity of webhook message"
Skipping == "Skipping - Not a push event"
Updated == "Successfully updated %s"

-----------------------------------------------------------------------------
(* post of src/lambda/webhook.py, up to the signature check *)

\* the decoding of the event into body; is_object: body and body['repository'],
\* if there, can be subscripted with a key
load_body(e) ==
    IF e.body_word
    THEN \* json.loads(event['body'])
         IF e.shape = "str" THEN [exc |-> "TypeError", is_object |-> FALSE]
         ELSE IF e.text.json = "invalid" THEN [exc |-> "JSONDecodeError", is_object |-> FALSE]
         ELSE [exc |-> "", is_object |-> e.text.json = "object"]
    ELSE \* json.loads(event), and body = event when that raises
         [exc |-> "", is_object |-> e.text.json = "object"]

\* body['repository']['full_name'] raises KeyError
full_name_missing(e) == ~e.text.repository \/ e.text.full_name = Missing

\* body['repository']['clone_url'] raises KeyError
clone_url_missing(e) == ~e.text.repository \/ e.text.clone_url = Missing

\* (mutant) the comparison with "push" the wrong way round
not_a_push_inverted(e) ==
    e.shape # "str" /\ e.has_headers /\ e.gh_event # "absent" /\ e.gh_event = "push"

\* the event filter
not_a_push(e) ==
    e.shape # "str" /\ e.has_headers /\ e.gh_event # "absent" /\ e.gh_event # "push"

\* (mutant) only the scheme prefixes are compared
compare_digest_prefix(a, b) == a.scheme = b.scheme

\* hmac.compare_digest of the two encoded signatures
compare_digest(a, b) == a = b

\* the loop over apikeys from the i-th key on; so_far is the flag secure so far
RECURSIVE check_keys(_, _, _, _)
check_keys(apikeys, i, e, so_far) ==
    IF i > Len(apikeys) THEN [exc |-> "", secure |-> so_far]
    ELSE IF ~AsciiEncodable(apikeys[i]) THEN [exc |-> "UnicodeEncodeError", secure |-> so_far]
    ELSE IF e.shape # "proxy" THEN [exc |-> "KeyError: 'body'", secure |-> so_far]
    ELSE IF ~e.text.ascii THEN [exc |-> "UnicodeEncodeError", secure |-> so_far]
    ELSE check_keys(apikeys, i + 1, e,
                    IF compare_digest(computed_signature(apikeys[i], e.text), e.sig)
                    THEN TRUE ELSE so_far)

\* the signature check: the flag secure, or the exception raised on the way
validate_signature(e, github_secrets) ==
    IF e.shape = "str" THEN [exc |-> "TypeError", secure |-> FALSE]
    ELSE IF ~e.has_headers THEN [exc |-> "KeyError: 'headers'", secure |-> FALSE]
    ELSE IF e.has_sig THEN check_keys(split(github_secrets), 1, e, FALSE)
    ELSE [exc |-> "", secure |-> FALSE]

\* (mutant) the event filter comes after the signature check
normalize_verifying_first(e, env) ==
    IF ~env.has_bucket THEN Raise(NoBucket)
    ELSE IF load_body(e).exc # "" THEN Raise(load_body(e).exc)
    ELSE IF ~load_body(e).is_object THEN Raise("TypeError")
    ELSE IF full_name_missing(e) THEN Raise(NoFullName)
    ELSE IF clone_url_missing(e) THEN Raise(NoCloneUrl)
    ELSE IF ~env.has_secrets THEN Raise(NoSecrets)
    ELSE IF not_a_push(e)
         THEN IF validate_signature(e, env.github_secrets).exc # ""
              THEN Raise(validate_signature(e, env.github_secrets).exc)
              ELSE IF ~validate_signature(e, env.github_secrets).secure
              THEN Raise(NotAuthentic)
              ELSE Response(Skipping, <<>>)
    ELSE Proceed

\* (mutant) github_secrets is read with a default
normalize_defaulting_secrets(e, env) ==
    IF ~env.has_bucket THEN Raise(NoBucket)
    ELSE IF load_body(e).exc # "" THEN Raise(load_body(e).exc)
    ELSE IF ~load_body(e).is_object THEN Raise("TypeError")
    ELSE IF full_name_missing(e) THEN Raise(NoFullName)
    ELSE IF clone_url_missing(e) THEN Raise(NoCloneUrl)
    ELSE IF not_a_push(e) THEN Response(Skipping, <<>>)
    ELSE Proceed

\* post from its first line to the event filter
normalize(e, env) ==
    IF ~env.has_bucket THEN Raise(NoBucket)
    ELSE IF load_body(e).exc # "" THEN Raise(load_body(e).exc)
    ELSE IF ~load_body(e).is_object THEN Raise("TypeError")
    ELSE IF full_name_missing(e) THEN Raise(NoFullName)
    ELSE IF clone_url_missing(e) THEN Raise(NoCloneUrl)
    ELSE IF ~env.has_secrets THEN Raise(NoSecrets)
    ELSE IF not_a_push(e) THEN Response(Skipping, <<>>)
    ELSE Proceed


-----------------------------------------------------------------------------
(* post of src/webhook.py *)

Handled == "Successfully handled %s"

\* the decoding of the event into body
webhook_load_body(e) ==
    IF e.body_word
    THEN IF e.shape = "str" THEN [exc |-> "TypeError", is_object |-> FALSE]
         ELSE IF e.text.json = "invalid" THEN [exc |-> "JSONDecodeError", is_object |-> FALSE]
         ELSE [exc |-> "", is_object |-> e.text.json = "object"]
    ELSE [exc |-> "", is_object |-> e.text.json = "object"]

\* the event filter
webhook_not_a_push(e) ==
    /\ e.shape # "str" /\ e.has_headers
    /\ e.gh_event # "absent" /\ e.gh_event # "push"

\* the loop over apikeys from the i-th key on
RECURSIVE webhook_check_keys(_, _, _, _)
webhook_check_keys(apikeys, i, e, so_far) ==
    IF i > Len(apikeys) THEN [exc |-> "", secure |-> so_far]
    ELSE IF ~AsciiEncodable(apikeys[i]) THEN [exc |-> "UnicodeEncodeError", secure |-> so_far]
    ELSE IF e.shape # "proxy" THEN [exc |-> "KeyError: 'body'", secure |-> so_far]
    ELSE IF ~e.text.ascii THEN [exc |-> "UnicodeEncodeError", secure |-> so_far]
    ELSE webhook_check_keys(apikeys, i + 1, e,
                            so_far \/ compare_digest(computed_signature(apikeys[i], e.text),
                                                     e.sig))

\* (mutant) a request without signature header is let through
webhook_validate_signature_lenient(e, github_secrets) ==
    IF e.shape = "str" THEN [exc |-> "TypeError", secure |-> FALSE]
    ELSE IF ~e.has_headers THEN [exc |-> "KeyError: 'headers'", secure |-> FALSE]
    ELSE IF e.has_sig THEN webhook_check_keys(split(github_secrets), 1, e, FALSE)
    ELSE [exc |-> "", secure |-> TRUE]

\* the signature check
webhook_validate_signature(e, github_secrets) ==
    IF e.shape = "str" THEN [exc |-> "TypeError", secure |-> FALSE]
    ELSE IF ~e.has_headers THEN [exc |-> "KeyError: 'headers'", secure |-> FALSE]
    ELSE IF e.has_sig THEN webhook_check_keys(split(github_secrets), 1, e, FALSE)
    ELSE [exc |-> "", secure |-> FALSE]

\* post(event, context) under the environment env: what it returns or raises
webhook_post(e, env) ==
    LET body == webhook_load_body(e)
        v == webhook_validate_signature(e, env.github_secrets)
    IN  IF body.exc # "" THEN Raise(body.exc)
        ELSE IF ~body.is_object THEN Raise("TypeError")
        ELSE IF ~e.text.repository \/ e.text.full_name = Missing THEN Raise(NoFullName)
        ELSE IF e.text.clone_url = Missing THEN Raise(NoCloneUrl)
        ELSE IF ~env.has_secrets THEN Raise(NoSecrets)
        ELSE IF webhook_not_a_push(e) THEN Response(Skipping, <<>>)
        ELSE IF v.exc # "" THEN Raise(v.exc)
        ELSE IF ~v.secure THEN Raise(NotAuthentic)
        ELSE Response(Handled, <<e.text.full_name, "/branch/", branch_name>>)

-----------------------------------------------------------------------------
(* The filesystem, the remotes and the external tools *)

\* commit n of branch main of the repository behind url; n = 0 is the commit a
\* clone checks out when the repository has no branch main
Commit(url, n) == [url |-> url, n |-> n]
NoCommit == Commit(Missing, 0)

\* repo_path of a key: nothing there, something that is no repository, or a
\* repository: its remote origin, its refs/remotes/origin/main (0: no such
\* ref), its HEAD, the commit its working tree was checked out from, and whether
\* a tracked file has been modified since
NoPath ==
    [state |-> "absent", origin |-> Missing, tracking |-> 0, head |-> NoCommit,
     tree |-> NoCommit, modified |-> FALSE]
Junk == [NoPath EXCEPT !.state = "junk"]

\* clone_repository(remote_url, repo_path), the remote's branch at tip
clone_repository(url, tip) ==
    [state |-> "repo", origin |-> url, tracking |-> tip, head |-> Commit(url, tip),
     tree |-> Commit(url, tip), modified |-> FALSE]

Op(name, outcome) == [op |-> name, outcome |-> outcome]

\* how a subprocess.run ends: exit status 0, another exit status, or an
\* exception because the command cannot be started
RunOutcomes == {"ok", "exit_nonzero", "cannot_run"}

\* run_command(command) with the command ending as outcome: TRUE, or it raises
run_command_raises(outcome) == outcome = "cannot_run"

\* the external operations of the invocation that have failed so far
Faults(log) == Cardinality({i \in DOMAIN log : log[i].outcome \notin {"ok", "not_found"}})

\* the operations of one step may end as outcomes
MayEnd(outcomes) ==
    Faults(ops) + Cardinality({i \in DOMAIN outcomes : outcomes[i] # "ok"}) <= MaxFaults

\* the invocation ends with r
Finish(r) ==
    /\ pc' = "done"
    /\ result' = r

-----------------------------------------------------------------------------
(* post of src/lambda/webhook.py, step by step *)

\* the handler is invoked with event e: everything up to the signature check
Post(e) ==
    /\ pc = "idle"
    /\ event' = e
    /\ LET r == normalize(e, environ)
       IN  IF r.kind = "proceed"
           THEN /\ pc' = "verify"
                /\ result' = NoResult
                /\ full_name' = e.text.full_name
                /\ remote_url' = e.text.clone_url
           ELSE /\ Finish(r)
                /\ full_name' = Missing
                /\ remote_url' = Missing
    /\ UNCHANGED <<environ, secure, ops, cache, remote, build_dir, bucket, history, last_sync>>

\* the signature check: secure = False, the loop over the keys, and the raise
Verify ==
    /\ pc = "verify"
    /\ LET v == validate_signature(event, environ.github_secrets)
       IN  /\ secure' = IF v.secure THEN "True" ELSE "False"
           /\ IF v.exc # "" THEN Finish(Raise(v.exc))
              ELSE IF v.secure = FALSE THEN Finish(Raise(NotAuthentic))
              ELSE pc' = "open" /\ UNCHANGED result
    /\ UNCHANGED <<environ, event, full_name, remote_url, ops, cache, remote,
                   build_dir, bucket, history, last_sync>>

\* (mutant) the clone is issued into whatever is at the path
create_repo_in_place(path, cloning) == <<Op("clone_repository", cloning)>>

\* create_repo(repo_path, remote_url), the clone ending as cloning: what it executes
create_repo(path, cloning) ==
    (IF path.state # "absent" THEN <<Op("rmtree", "ok")>> ELSE <<>>)
    \o <<Op("clone_repository", cloning)>>

\* (mutant) the repository is looked for at another path than it is cloned into
discover_repository_elsewhere(path) == FALSE

\* discover_repository(repo_path) and Repository(..) find a repository at path
discover_repository(path) == path.state = "repo"

\* discover_repository / Repository, and create_repo when that raises
OpenRepo ==
    /\ pc = "open"
    /\ IF discover_repository(cache[full_name])
       THEN /\ ops' = Append(ops, Op("discover_repository", "ok"))
            /\ pc' = "pull"
            /\ history' = [history EXCEPT ![full_name] = IF @ = "none" THEN "synced" ELSE @]
            /\ UNCHANGED <<result, cache>>
       ELSE \E cloning \in {"ok", "failed"}, left \in {"absent", "junk"} :
            /\ MayEnd(<<cloning>>)
            /\ ops' = Append(ops, Op("discover_repository", "not_found"))
                        \o create_repo(cache[full_name], cloning)
            /\ history' = [history EXCEPT ![full_name] =
                              IF cloning = "ok" THEN "cloned"
                              ELSE IF @ = "none" THEN "synced" ELSE @]
            /\ IF cloning = "ok"
               THEN /\ left = "absent"
                    /\ cache' = [cache EXCEPT ![full_name] =
                                    clone_repository(remote_url, remote[remote_url])]
                    /\ pc' = "pull"
                    /\ UNCHANGED result
               ELSE \* a failed clone leaves nothing, or what it had written so far
                    /\ cache' = [cache EXCEPT ![full_name] =
                                    IF left = "junk" THEN Junk ELSE NoPath]
                    /\ Finish(Raise("GitError"))
    /\ UNCHANGED <<environ, event, full_name, remote_url, secure, remote, build_dir,
                   bucket, last_sync>>

\* repo.checkout_tree(commit) with pygit2's default strategy (safe): files that
\* differ between HEAD and the commit are rewritten unless locally modified, and
\* a locally modified file among them is a conflict that raises; a locally
\* modified file that does not differ between HEAD and the commit is left as
\* it is.  conflict: whether a modified file is among those that differ.
checkout_tree(repo, target, conflict) ==
    IF repo.modified /\ target # repo.head /\ conflict
    THEN [exc |-> "GitError", repo |-> repo]
    ELSE [exc |-> "", repo |-> [repo EXCEPT !.tree = target]]

\* (mutant) HEAD is moved only when it is elsewhere, and detached otherwise
set_target_toggling(repo, target) ==
    [repo EXCEPT !.head = IF @ = target THEN NoCommit ELSE target]

\* repo.head.set_target(id)
set_target(repo, target) == [repo EXCEPT !.head = target]

\* pull_repo(repo, branch_name, remote_url): the repository afterwards, what was
\* executed and the exception raised, if any.  tip: branch main of the remote;
\* fetching: how the fetch ends; conflict: see checkout_tree.
pull_repo(repo, url, tip, fetching, conflict) ==
    IF repo.origin # url
    THEN \* no remote has this url, and a remote named origin exists already
         [repo |-> repo, ops |-> <<Op("create_remote", "failed")>>, exc |-> "ValueError"]
    ELSE IF fetching # "ok"
    THEN [repo |-> repo, ops |-> <<Op("fetch", "failed")>>, exc |-> "GitError"]
    ELSE LET fetched == [repo EXCEPT !.tracking = tip]
             target == Commit(url, tip)
             out == checkout_tree(fetched, target, conflict)
         IN  IF fetched.tracking = 0
             THEN [repo |-> fetched,
                   ops |-> <<Op("fetch", "ok"), Op("lookup_reference", "failed")>>,
                   exc |-> "KeyError"]
             ELSE IF out.exc # ""
             THEN [repo |-> fetched,
                   ops |-> <<Op("fetch", "ok"), Op("lookup_reference", "ok"),
                             Op("checkout_tree", "failed")>>,
                   exc |-> out.exc]
             ELSE [repo |-> set_target(out.repo, target),
                   ops |-> <<Op("fetch", "ok"), Op("lookup_reference", "ok"),
                             Op("checkout_tree", "ok"), Op("set_target", "ok")>>,
                   exc |-> ""]

\* what is kept of a pull_repo that returned
Synced(url, tip, repo, again) ==
    [url |-> url, tip |-> tip, head |-> repo.head, tree |-> repo.tree, again |-> again]

NoSync == Synced(Missing, 0, NoPath, FALSE)

\* the pull_repo for key n under way comes right after one that returned for the
\* same clone url, with the remote's branch where it was then
Repeats(n) ==
    last_sync[n].url = remote_url /\ last_sync[n].tip = remote[remote_url]

PullRepo ==
    /\ pc = "pull"
    /\ \E fetching \in {"ok", "failed"}, conflict \in BOOLEAN :
        LET out == pull_repo(cache[full_name], remote_url, remote[remote_url],
                             fetching, conflict)
        IN  /\ MayEnd(<<fetching>>)
            /\ cache[full_name].origin # remote_url => fetching = "ok" /\ ~conflict
            /\ fetching # "ok" => ~conflict
            /\ ops' = ops \o out.ops
            /\ cache' = [cache EXCEPT ![full_name] = out.repo]
            /\ IF out.exc = ""
               THEN /\ pc' = "build"
                    /\ last_sync' = [last_sync EXCEPT ![full_name] =
                                        Synced(remote_url, remote[remote_url], out.repo,
                                               Repeats(full_name))]
                    /\ UNCHANGED result
               ELSE /\ Finish(Raise(out.exc))
                    /\ UNCHANGED last_sync
    /\ UNCHANGED <<environ, event, full_name, remote_url, secure, remote, build_dir,
                   bucket, history>>

\* build_hugo(repo_path, build_path): "/opt/hugo -s .. -d .." then "ls -l ..".
\* The generator writes the files of the checked-out commit into build_path,
\* beside what is there, and may write into its source directory.
BuildHugo ==
    /\ pc = "build"
    /\ \E hugo \in RunOutcomes, ls \in RunOutcomes, touches \in BOOLEAN :
        /\ touches => hugo = "ok"
        /\ hugo = "cannot_run" => ls = "ok"
        /\ MayEnd(<<hugo, ls>>)
        /\ build_dir' = IF hugo = "ok" THEN build_dir \cup {cache[full_name].tree}
                        ELSE build_dir
        /\ cache' = IF touches THEN [cache EXCEPT ![full_name].modified = TRUE] ELSE cache
        /\ IF run_command_raises(hugo)
           THEN /\ ops' = Append(ops, Op("hugo", hugo))
                /\ Finish(Raise("OSError"))
           ELSE /\ ops' = ops \o <<Op("hugo", hugo), Op("ls", ls)>>
                /\ IF run_command_raises(ls)
                   THEN Finish(Raise("OSError"))
                   ELSE pc' = "publish" /\ UNCHANGED result
    /\ UNCHANGED <<environ, event, full_name, remote_url, secure, remote, bucket,
                   history, last_sync>>

\* upload_to_s3(build_path, output_bucket): "aws s3 rm --recursive", "aws s3
\* sync", "aws s3 ls"
UploadToS3 ==
    /\ pc = "publish"
    /\ \E rm \in RunOutcomes, sync \in RunOutcomes, ls \in RunOutcomes :
        LET emptied == IF rm = "ok" THEN {} ELSE bucket
        IN  /\ MayEnd(<<rm, sync, ls>>)
            /\ IF run_command_raises(rm)
               THEN /\ sync = "ok" /\ ls = "ok"
                    /\ ops' = Append(ops, Op("s3 rm", rm))
                    /\ bucket' = bucket
                    /\ Finish(Raise("OSError"))
               ELSE IF run_command_raises(sync)
               THEN /\ ls = "ok"
                    /\ ops' = ops \o <<Op("s3 rm", rm), Op("s3 sync", sync)>>
                    /\ bucket' = emptied
                    /\ Finish(Raise("OSError"))
               ELSE /\ ops' = ops \o <<Op("s3 rm", rm), Op("s3 sync", sync), Op("s3 ls", ls)>>
                    /\ bucket' = IF sync = "ok" THEN emptied \cup build_dir ELSE emptied
                    /\ IF run_command_raises(ls)
                       THEN Finish(Raise("OSError"))
                       ELSE pc' = "return" /\ UNCHANGED result
    /\ UNCHANGED <<environ, event, full_name, remote_url, secure, cache, remote,
                   build_dir, history, last_sync>>

\* the optional cleanup and the success response
Return ==
    /\ pc = "return"
    /\ ops' = IF cleanup THEN Append(ops, Op("rmtree", "ok")) ELSE ops
    /\ cache' = IF cleanup THEN [cache EXCEPT ![full_name] = NoPath] ELSE cache
    /\ Finish(Response(Updated, <<full_name, "/branch/", branch_name>>))
    /\ UNCHANGED <<environ, event, full_name, remote_url, secure, remote, build_dir,
                   bucket, history, last_sync>>

-----------------------------------------------------------------------------
(* The surroundings *)

\* a commit is pushed to branch main of the repository behind url
RemotePush(url) ==
    /\ pc = "idle"
    /\ remote[url] < MaxTip
    /\ remote' = [remote EXCEPT ![url] = @ + 1]
    /\ UNCHANGED <<environ, pc, event, full_name, remote_url, secure, ops, result, cache,
                   build_dir, bucket, history, last_sync>>

\* the invocation is over: the caller has its response or its error
Deliver ==
    /\ pc = "done"
    /\ pc' = "idle"
    /\ event' = NoEvent
    /\ full_name' = Missing
    /\ remote_url' = Missing
    /\ secure' = "unset"
    /\ ops' = <<>>
    /\ result' = NoResult
    /\ last_sync' = [n \in FullNames |-> [last_sync[n] EXCEPT !.again = FALSE]]
    /\ UNCHANGED <<environ, cache, remote, build_dir, bucket, history>>

\* the host replaces the execution environment: /tmp is empty again
Recycle ==
    /\ pc = "idle"
    /\ cache # [n \in FullNames |-> NoPath] \/ build_dir # {}
    /\ cache' = [n \in FullNames |-> NoPath]
    /\ build_dir' = {}
    /\ history' = [n \in FullNames |-> "none"]
    /\ last_sync' = [n \in FullNames |-> NoSync]
    /\ UNCHANGED <<environ, pc, event, full_name, remote_url, secure, ops, result,
                   remote, bucket>>

-----------------------------------------------------------------------------
(* Specifications *)

Env(has_bucket, has_secrets, github_secrets) ==
    [has_bucket |-> has_bucket, has_secrets |-> has_secrets,
     github_secrets |-> github_secrets]

\* a fresh execution environment, nothing under /tmp
ColdStart ==
    /\ pc = "idle"
    /\ event = NoEvent
    /\ full_name = Missing
    /\ remote_url = Missing
    /\ secure = "unset"
    /\ ops = <<>>
    /\ result = NoResult
    /\ cache = [n \in FullNames |-> NoPath]
    /\ build_dir = {}
    /\ bucket = {}
    /\ history = [n \in FullNames |-> "none"]
    /\ last_sync = [n \in FullNames |-> NoSync]

\* the host invokes the handler with one of the events
Invoke(events) ==
    /\ pc = "idle"
    /\ \E e \in events : Post(e)

Pipeline == Verify \/ OpenRepo \/ PullRepo \/ BuildHugo \/ UploadToS3 \/ Return

\* The pipeline under one configuration, requests of every repository
PipelineEvents ==
    UNION {{Event("proxy", TRUE, t, TRUE, g, TRUE, s) :
                g \in {"absent", "push"}, s \in {Garbage, sign(<<"a">>, t)}} :
           t \in {Text("object", TRUE, fn, url, a) :
                    fn \in FullNames, url \in Urls, a \in BOOLEAN}}

Init ==
    /\ environ = Env(TRUE, TRUE, <<"a">>)
    /\ remote = [u \in Urls |-> 0]
    /\ ColdStart

Next ==
    \/ Invoke(PipelineEvents)
    \/ Pipeline
    \/ Deliver
    \/ \E url \in Urls : RemotePush(url)
    \/ Recycle

\* Warm and cold invocations under one configuration, for every repository,
\* with the remotes advancing and the external tools failing
Spec == Init /\ [][Next]_vars

\* One invocation on a cold start, for every configuration and every request
Envs ==
    {Env(b, FALSE, <<>>) : b \in BOOLEAN}
    \cup {Env(FALSE, TRUE, <<"a">>)}
    \cup {Env(TRUE, TRUE, s) : s \in StringsUpTo(MaxCfgLen)}

InitAuth ==
    /\ environ \in Envs
    /\ remote = [u \in Urls |-> 1]
    /\ ColdStart

NextAuth ==
    \/ Invoke(Events(environ, {"o/r1"}, {"u1"}))
    \/ Pipeline

SpecAuth == InitAuth /\ [][NextAuth]_vars

-----------------------------------------------------------------------------
(* What the claims speak of *)

\* the secrets of the configuration
Configured == IF environ.has_secrets THEN Range(split(environ.github_secrets)) ELSE {}

\* the request carries a raw body and the x-hub-signature of that body under S
SignedBy(S) ==
    /\ event.shape = "proxy" /\ event.has_headers /\ event.has_sig
    /\ event.sig = sign(S, event.text)

Matched == \E S \in Configured : SignedBy(S)

\* the signature check has run
Checked == secure # "unset"

\* the signature check has run and let the request through
Passed == Checked /\ (pc = "open" \/ ops # <<>>)

OpNames(log) == [i \in DOMAIN log |-> log[i].op]

Executed(name) == \E i \in DOMAIN ops : ops[i].op = name

Ended(name, outcomes) == \E i \in DOMAIN ops : ops[i].op = name /\ ops[i].outcome \in outcomes

-----------------------------------------------------------------------------
(* C1 *)

\* C1: no repository, build or publish operation is executed unless the
\* request's x-hub-signature equals sign(S, raw body) for a configured secret
\* S; a request that reaches the signature check with no secret matching ends
\* with an error and nothing executed.
C1_NoWorkWithoutMatchingSignature ==
    /\ (ops # <<>> \/ pc \in {"open", "pull", "build", "publish", "return"}) => Matched
    /\ (Checked /\ ~Matched) => (pc = "done" /\ result.kind = "raise" /\ ops = <<>>)

\* a request signed with the second secret of the list has been published
C1_Witness ==
    /\ pc = "done" /\ result.kind = "response" /\ Executed("s3 sync")
    /\ Len(split(environ.github_secrets)) > 1
    /\ split(environ.github_secrets)[1] # split(environ.github_secrets)[2]
    /\ SignedBy(split(environ.github_secrets)[2])

-----------------------------------------------------------------------------
(* C2 *)

\* C2: a request whose signature header is sign(S, B), B its body and S a
\* secret of the configured list at any position, passes the signature check,
\* whatever the other secrets of the list.
C2_SignedByConfiguredSecretPasses ==
    (Checked /\ Matched) => Passed

-----------------------------------------------------------------------------
(* C3 *)

\* C3: a request whose signature header is sign(S, B), B its body and S not in
\* the configured list, fails the signature check and the handler raises the
\* authenticity error.
C3_ForeignSecretRaisesAuthenticityError ==
    (Checked /\ \E S \in SenderKeys(environ) \ Configured : SignedBy(S))
        => (pc = "done" /\ result = Raise(NotAuthentic))

-----------------------------------------------------------------------------
(* C4 *)

\* C4: a request without an x-hub-signature header, whatever its shape and also
\* when it has no headers mapping at all, ends the signature check with the
\* authenticity error and nothing executed.
C4_AbsentSignatureIsAuthenticityError ==
    (Checked /\ ~(event.has_headers /\ event.has_sig))
        => (pc = "done" /\ result = Raise(NotAuthentic) /\ ops = <<>>)

-----------------------------------------------------------------------------
(* C5 *)

NonPush == event.has_headers /\ event.gh_event \notin {"absent", "push"}

\* the configuration is present and the body decodes to a payload that has both
\* repository fields
Normalizable ==
    /\ environ.has_bucket /\ environ.has_secrets
    /\ event.text.json = "object" /\ event.text.repository
    /\ event.text.full_name # Missing /\ event.text.clone_url # Missing

\* C5 as stated: every request whose headers hold an X-GitHub-Event other than
\* push gets the skip response, not an error, and nothing is executed.
C5_NonPushAlwaysSkips ==
    (pc = "done" /\ NonPush) => (result = Response(Skipping, <<>>) /\ ops = <<>>)

\* C5 amended: for a request whose headers hold an X-GitHub-Event other than
\* push nothing is ever executed; it gets the skip response when the
\* configuration is present and the payload complete, and the error of the
\* missing configuration value or payload field otherwise.
C5_NonPushSkipsOnceNormalized ==
    NonPush =>
        /\ ops = <<>> /\ pc \in {"idle", "done"} /\ ~Checked
        /\ pc = "done" =>
              IF Normalizable THEN result = Response(Skipping, <<>>)
              ELSE result.kind = "raise"

\* a ping that carries no signature has been answered with the skip response
C5_Witness ==
    /\ pc = "done" /\ event.has_headers /\ event.gh_event = "ping" /\ ~event.has_sig
    /\ result.kind = "response" /\ result.statusCode = 200 /\ result.message = Skipping

-----------------------------------------------------------------------------
(* C6 *)

ToolFailed == {"exit_nonzero", "cannot_run"}

\* C6: when the generator cannot be run or exits with failure the invocation
\* ends with an error and neither publish command runs; when the publish's
\* remove command fails the sync command does not run.
C6_FailedToolAbortsPipeline ==
    /\ Ended("hugo", ToolFailed) => ~Executed("s3 rm") /\ ~Executed("s3 sync")
    /\ Ended("s3 rm", ToolFailed) => ~Executed("s3 sync")
    /\ (pc = "done" /\ (Ended("hugo", ToolFailed) \/ Ended("s3 rm", ToolFailed)))
          => result.kind = "raise"

-----------------------------------------------------------------------------
(* C7 *)

Succeeded == result.kind = "response" /\ result.message = Updated

\* C7: the success response is returned only if the signature check, the
\* repository sync, the build and the publish have all completed successfully
\* in the invocation; every other invocation that is not skipped ends with a
\* raised error.
C7_SuccessOnlyAfterEveryStage ==
    pc = "done" =>
        /\ Succeeded =>
              /\ secure = "True" /\ Matched
              /\ Ended("set_target", {"ok"})
              /\ Ended("hugo", {"ok"})
              /\ Ended("s3 rm", {"ok"}) /\ Ended("s3 sync", {"ok"})
        /\ ~Succeeded => (result.kind = "raise" \/ result = Response(Skipping, <<>>))

-----------------------------------------------------------------------------
(* C8 *)

\* what a sync executes: on an adopted cache, after a clone into no path, and
\* after a clone into a path that had to be removed
SyncOps ==
    LET update == <<"fetch", "lookup_reference", "checkout_tree", "set_target">>
    IN  {<<"discover_repository">> \o update,
         <<"discover_repository", "clone_repository">> \o update,
         <<"discover_repository", "rmtree", "clone_repository">> \o update}

BuildOps == <<"hugo", "ls">>
PublishOps == <<"s3 rm", "s3 sync", "s3 ls">>

\* a stage of the invocation has failed: the signature check raised, or an
\* operation of the sync, the build or the publish did not end well
StageFailed == Faults(ops) > 0 \/ (Checked /\ pc = "done" /\ ops = <<>>)

ValidPush ==
    /\ Matched /\ event.gh_event \in {"absent", "push"}
    /\ event.text.json = "object" /\ event.text.repository
    /\ event.text.full_name # Missing /\ event.text.clone_url # Missing

\* C8: an invocation for a validly signed push (or a request without event
\* header) with a complete payload in which no stage fails executes the sync,
\* then the build, then the publish, each once, and returns statusCode 200 with
\* a body that holds the repository's full_name.
C8_ValidPushRunsEachStageOnceInOrder ==
    (pc = "done" /\ ValidPush /\ ~StageFailed) =>
        /\ \E s \in SyncOps : OpNames(ops) = s \o BuildOps \o PublishOps
        /\ result.kind = "response" /\ result.statusCode = 200
        /\ result.message = Updated
        /\ Len(result.repo_name) > 0 /\ result.repo_name[1] = event.text.full_name

\* such an invocation has ended, on a cache it adopted
C8_Witness ==
    /\ pc = "done" /\ ValidPush /\ ~StageFailed
    /\ ops[1] = Op("discover_repository", "ok")
    /\ result.kind = "response"

-----------------------------------------------------------------------------
(* C9 *)

\* the step that opens the cache of the key, or creates it
SyncStep == pc = "open" /\ pc' # "open"

\* the step issues a clone
Clones == \E i \in DOMAIN ops' : i > Len(ops) /\ ops'[i].op = "clone_repository"

\* C9 as stated: the first sync for a key in an environment clones, and every
\* later sync for the key in that environment issues no clone.
C9_LaterSyncNeverClones ==
    [][SyncStep => /\ history[full_name] = "none" => Clones
                   /\ history[full_name] # "none" => ~Clones]_vars

\* C9 amended: the first sync for a key in an environment clones, and every
\* sync for the key after a clone of it has succeeded in that environment
\* adopts the cache and issues no clone (a sync that follows only failed clones
\* clones again).
C9_SyncAfterCloneNeverClones ==
    [][SyncStep => /\ history[full_name] = "none" => Clones
                   /\ history[full_name] = "cloned" =>
                         /\ ~Clones
                         /\ ops' = Append(ops, Op("discover_repository", "ok"))
                         /\ pc' = "pull"
                   /\ history[full_name] = "synced" => Clones]_vars

\* a later sync for a key has adopted the cache and fetched and reset it
C9_Witness ==
    /\ pc = "build" /\ history[full_name] = "cloned"
    /\ OpNames(ops) = <<"discover_repository", "fetch", "lookup_reference",
                        "checkout_tree", "set_target">>

-----------------------------------------------------------------------------
(* C10 *)

\* C10: after a successful sync the cached repository's HEAD is the commit the
\* remote ref points to and the working tree is that commit's tree, whatever
\* the cache was before (local modifications, another HEAD).
C10_SyncedCacheMirrorsRemote ==
    pc = "build" =>
        /\ cache[full_name].head = Commit(remote_url, remote[remote_url])
        /\ cache[full_name].tree = cache[full_name].head
        /\ ~cache[full_name].modified

-----------------------------------------------------------------------------
(* C11 *)

\* the step that runs pull_repo
UpdateStep == pc = "pull" /\ pc' # "pull"

\* C11: a sync for a key that comes right after a sync for the same key and
\* clone url, the remote's branch unchanged in between, leaves the path at the
\* commit the first one left it at: HEAD the same and, when it returns, the
\* working tree checked out from the same commit.
C11_SyncTwiceSameCommit ==
    [][(UpdateStep /\ Repeats(full_name)) =>
          /\ cache'[full_name].head = last_sync[full_name].head
          /\ pc' = "build" => cache'[full_name].tree = last_sync[full_name].tree]_vars

\* the second of two such syncs has returned, on the cache the first one left
C11_Witness ==
    /\ pc = "build" /\ last_sync[full_name].again
    /\ ops[1] = Op("discover_repository", "ok")
    /\ cache[full_name].head = Commit(remote_url, remote[remote_url])

-----------------------------------------------------------------------------
(* C12 *)

\* C12: after an invocation that succeeded, every stage of it having ended
\* well, the bucket holds the files generated from the commit just synced and
\* nothing else, whatever the invocations before it in the environment.
C12_BucketHoldsLatestBuildOnly ==
    (pc = "done" /\ Succeeded /\ ~StageFailed) => bucket = {cache[full_name].tree}

-----------------------------------------------------------------------------
(* C13 *)

\* one of the three decoders succeeds on the event: (a) it has a body field that
\* holds JSON, (b) it is a string that holds JSON, (c) it is a mapping already
Decodable(e) ==
    \/ e.shape = "proxy" /\ e.text.json # "invalid"
    \/ e.shape = "str" /\ e.text.json # "invalid"
    \/ e.shape \in {"proxy", "dict"}

\* C13: the decoders are tried in order and a failing one falls through to the
\* next: an event on which one of them succeeds is never rejected with the
\* exception of a decoder that failed.
C13_FailedDecoderFallsThrough ==
    (pc = "done" /\ environ.has_bucket /\ Decodable(event))
        => ~(load_body(event).exc # "" /\ result = Raise(load_body(event).exc))

-----------------------------------------------------------------------------
(* C14 *)

\* the event has been decoded into a payload
Decoded(e) == load_body(e).exc = "" /\ e.text.json # "invalid"

LacksFullName(e) == e.text.json = "mistyped" \/ ~e.text.repository \/ e.text.full_name = Missing

LacksCloneUrl(e) == e.text.json = "mistyped" \/ ~e.text.repository \/ e.text.clone_url = Missing

\* C14: a decoded payload without repository.full_name is rejected with the
\* error that names full_name, one that has it but no repository.clone_url
\* with the error that names clone_url, before the signature check and with
\* nothing executed.
C14_MissingFieldIsNamed ==
    (pc = "done" /\ environ.has_bucket /\ Decoded(event)) =>
        /\ LacksFullName(event) =>
              result = Raise(NoFullName) /\ ~Checked /\ ops = <<>>
        /\ (~LacksFullName(event) /\ LacksCloneUrl(event)) =>
              result = Raise(NoCloneUrl) /\ ~Checked /\ ops = <<>>

-----------------------------------------------------------------------------
(* C15 *)

\* the event decodes to a payload that has both repository fields
CompletePayload(e) ==
    /\ Decoded(e) /\ e.text.json = "object"
    /\ ~full_name_missing(e) /\ ~clone_url_missing(e)

\* C15: without output_bucket or without github_secrets every invocation ends
\* with a raised error and nothing is executed (no cache discovery, deletion,
\* clone, fetch, build or publish, and no signature check); the error is that
\* of output_bucket when it is absent, and that of github_secrets when only
\* that is absent and the payload is complete.
C15_MissingConfigFailsBeforeIO ==
    (~environ.has_bucket \/ ~environ.has_secrets) =>
        /\ ops = <<>> /\ pc \in {"idle", "done"} /\ ~Checked
        /\ pc = "done" =>
              /\ result.kind = "raise"
              /\ ~environ.has_bucket => result = Raise(NoBucket)
              /\ (environ.has_bucket /\ CompletePayload(event)) => result = Raise(NoSecrets)

\* a signed push with a complete payload has been refused for want of
\* github_secrets
C15_Witness ==
    /\ pc = "done" /\ environ.has_bucket /\ ~environ.has_secrets
    /\ event.shape = "proxy" /\ event.has_sig /\ event.gh_event = "push"
    /\ CompletePayload(event)
    /\ result = Raise(NoSecrets)

-----------------------------------------------------------------------------
(* C16 *)

\* what the step has executed
Executing == SubSeq(ops', Len(ops) + 1, Len(ops'))

\* C16: when no repository can be opened at the key's path (nothing there, or
\* something that is no repository), whatever is at the path is deleted and a
\* full clone is issued into the path, which does not exist at that moment;
\* when the clone succeeds the update of the same invocation runs on the fresh
\* clone, starting with a fetch from the clone's remote, and when it fails the
\* invocation ends with the error.
C16_OpenFailureRecreates ==
    [][/\ (SyncStep /\ cache[full_name].state # "repo") =>
            /\ Executing[1] = Op("discover_repository", "not_found")
            /\ OpNames(Executing) =
                  IF cache[full_name].state = "absent"
                  THEN <<"discover_repository", "clone_repository">>
                  ELSE <<"discover_repository", "rmtree", "clone_repository">>
            /\ \A i \in DOMAIN Executing : Executing[i].op = "rmtree" => Executing[i].outcome = "ok"
            /\ IF Executing[Len(Executing)].outcome = "ok"
               THEN /\ pc' = "pull"
                    /\ cache'[full_name] = clone_repository(remote_url, remote[remote_url])
               ELSE pc' = "done" /\ result'.kind = "raise"
       /\ (UpdateStep /\ Executed("clone_repository")) =>
            /\ cache[full_name] = clone_repository(remote_url, remote[remote_url])
            /\ Executing[1].op = "fetch"]_vars

\* what a failed clone had left at the path has been deleted, and the fresh
\* clone updated
C16_Witness ==
    /\ pc = "build"
    /\ OpNames(ops) = <<"discover_repository", "rmtree", "clone_repository", "fetch",
                        "lookup_reference", "checkout_tree", "set_target">>
    /\ cache[full_name].head = Commit(remote_url, remote[remote_url])

-----------------------------------------------------------------------------
(* C17 *)

\* pull_repo has been entered in the invocation
Updating == Executed("create_remote") \/ Executed("fetch")

\* C17: in pull_repo the remote is resolved for every cached repository and
\* every clone url: no creation of a remote fails, the fetch is done on a remote
\* of the repository whose url is the clone url, and the reference looked up is
\* what that fetch brought from the remote's branch.
C17_RemoteResolutionSucceeds ==
    Updating =>
        /\ ~Ended("create_remote", {"failed"})
        /\ Executed("fetch") /\ cache[full_name].origin = remote_url
        /\ Ended("lookup_reference", {"ok"}) =>
              cache[full_name].tracking = remote[remote_url]

-----------------------------------------------------------------------------
(* C18 *)

\* post of src/lambda/webhook.py has raised before the repository sync
RaisedBeforeSync == pc = "done" /\ result.kind = "raise" /\ ops = <<>>

\* C18: with output_bucket set the two handlers decide alike on every request:
\* post of src/webhook.py raises exactly when post of src/lambda/webhook.py
\* raises before the repository sync (and it raises the same error), returns
\* the skip response exactly when the other does, and returns its success
\* response exactly when the other goes on to the repository sync.
C18_HandlersDecideAlike ==
    (environ.has_bucket /\ pc \notin {"idle", "verify"}) =>
        LET w == webhook_post(event, environ)
        IN  /\ w.kind = "raise" <=> RaisedBeforeSync
            /\ w.kind = "raise" => w = result
            /\ w = Response(Skipping, <<>>) <=> result = Response(Skipping, <<>>)
            /\ (w.kind = "response" /\ w.message = Handled) <=> Passed
            /\ w.kind \in {"raise", "response"}

\* a request has passed the signature check of the one handler, and the other
\* answers it with its success response
C18_Witness ==
    /\ environ.has_bucket /\ pc = "open" /\ Passed
    /\ webhook_post(event, environ) =
          Response(Handled, <<full_name, "/branch/", branch_name>>)

-----------------------------------------------------------------------------
(* C19 *)

\* the event with another x-hub-signature header, or none, in its headers
Resigned(e, h) == [e EXCEPT !.has_sig = h.has_sig, !.sig = h.sig]

\* C19: a request with a complete payload and an X-GitHub-Event other than
\* push, the configuration present, gets the skip response without the
\* signature check being run, and the same request with any other
\* x-hub-signature (that of a configured secret, another one, or none) gets
\* the same response from both handlers.
C19_SkipWhateverTheSignature ==
    (pc = "done" /\ NonPush /\ Normalizable) =>
        /\ result = Response(Skipping, <<>>) /\ ~Checked /\ ops = <<>>
        /\ \A h \in Headers(environ, event.text) :
              /\ normalize(Resigned(event, h), environ) = result
              /\ webhook_post(Resigned(event, h), environ) = result

\* a ping signed with a configured secret has been answered with the skip
\* response
C19_Witness ==
    /\ pc = "done" /\ NonPush /\ Normalizable /\ Matched
    /\ result = Response(Skipping, <<>>)

-----------------------------------------------------------------------------
(* C20 *)

\* the event has the gateway's envelope: a string body field, and headers that
\* hold x-hub-signature
Enveloped(e) == e.shape = "proxy" /\ e.has_headers /\ e.has_sig

\* a direct invocation: the event is the payload itself, as a structured record
\* or as a string, and holds both repository fields
Direct(e) ==
    /\ e.shape \in {"dict", "str"} /\ ~e.has_headers
    /\ e.text.json = "object" /\ e.text.repository
    /\ e.text.full_name # Missing /\ e.text.clone_url # Missing

\* C20: the repository sync is reached only by an event that has the envelope;
\* a direct invocation, the configuration present, is normalized to the
\* full_name and clone_url of its payload and then ends in an error raised by
\* the signature check, nothing executed.
C20_OnlyEnvelopedRequestsSucceed ==
    /\ Passed => Enveloped(event)
    /\ (pc = "done" /\ environ.has_bucket /\ environ.has_secrets /\ Direct(event)) =>
          /\ full_name = event.text.full_name /\ remote_url = event.text.clone_url
          /\ Checked /\ result.kind = "raise" /\ ops = <<>>

====
